---- MODULE Spec2Model ----
(***************************************************************************)
(* The relational operators of db/Query.cpp: projection, filter, aggregate *)
(* and join over sequentially scanned tuple stores.                        *)
(*                                                                         *)
(* A field value (field_t, a std::variant) is the pair <<index, payload>>: *)
(* index is the variant alternative and payload a sequence of integers,    *)
(*   int n      -> <<0, <<n>>>>                                            *)
(*   double n/d -> <<1, <<n, d>>>>   (an exact fraction in lowest terms)   *)
(*   string s   -> <<2, s>>          (s the sequence of character codes)   *)
(* A tuple is a sequence of field values, a store a sequence of tuples, a  *)
(* schema (TupleDesc) the sequence of its field names.                     *)
(***************************************************************************)
EXTENDS Integers, Sequences, FiniteSets

VARIABLES call, in, right, out, out0, err, field_names, pred, agg, jpred

vars == <<call, in, right, out, out0, err, field_names, pred, agg, jpred>>

\* ------------------------------------------------------------------ bounds
MaxRows == 3
MaxRight == 2
MaxNames == 2
MaxClauses == 2

\* ------------------------------------------------------------ field values
IntIndex == 0
DoubleIndex == 1
StringIndex == 2

IntF(n) == <<IntIndex, <<n>>>>
StrF(s) == <<StringIndex, s>>

RECURSIVE Gcd(_, _)
Gcd(a, b) == IF b = 0 THEN a ELSE Gcd(b, a % b)

Abs(n) == IF n < 0 THEN -n ELSE n

\* the double n/d in lowest terms with a positive denominator
Norm(n, d) ==
    LET g == Gcd(Abs(n), Abs(d))
        s == IF d < 0 THEN -1 ELSE 1
    IN  <<(s * n) \div g, (s * d) \div g>>

DblF(n, d) == <<DoubleIndex, Norm(n, d)>>

\* std::numeric_limits<double>::max() and lowest(): above, resp. below, every
\* value a store of the model holds (DblLess compares by cross product)
DblMax == <<1, 0>>
DblLowest == <<-1, 0>>

DblLess(a, b) == a[1] * b[2] < b[1] * a[2]
DblAdd(a, b) == Norm(a[1] * b[2] + b[1] * a[2], a[2] * b[2])
DblDivInt(a, n) == Norm(a[1], a[2] * n)
DblMin(a, b) == IF DblLess(b, a) THEN b ELSE a
DblMax2(a, b) == IF DblLess(a, b) THEN b ELSE a

\* std::string operator<: lexicographic on the character codes
RECURSIVE StrLess(_, _)
StrLess(s, t) ==
    IF t = <<>> THEN FALSE
    ELSE IF s = <<>> THEN TRUE
    ELSE IF Head(s) # Head(t) THEN Head(s) < Head(t)
    ELSE StrLess(Tail(s), Tail(t))

\* operator< of one alternative
PayloadLess(i, a, b) ==
    IF i = IntIndex THEN a[1] < b[1]
    ELSE IF i = DoubleIndex THEN DblLess(a, b)
    ELSE StrLess(a, b)

\* std::variant's relational operators: the alternative index decides first,
\* the held values only when both sides hold the same alternative; nothing throws
FieldEq(a, b) == a[1] = b[1] /\ a[2] = b[2]
FieldLt(a, b) ==
    IF a[1] # b[1] THEN a[1] < b[1] ELSE PayloadLess(a[1], a[2], b[2])
FieldLe(a, b) == ~FieldLt(b, a)

Ops == {"EQ", "NE", "LT", "LE", "GT", "GE"}
OtherOp == "OTHER"

\* ------------------------------------------------------------------ schema
NoErr == "none"

InSchema == <<"id", "name", "score">>
RightSchema == <<"rid", "tag">>

Names(schema) == {schema[i] : i \in DOMAIN schema}

Has(schema, name) == name \in Names(schema)

\* TupleDesc::index_of: the position of the name (1-based here; the code's are
\* 0-based); the caller tests Has first, a miss throws
index_of(schema, name) == CHOOSE i \in DOMAIN schema : schema[i] = name

\* -------------------------------------------------------------- projection
\* a projection that copies the named fields in schema order, not in the order
\* asked for
ProjectFieldsSchemaOrder(schema, tuple, names, k, projectedFields) ==
    IF \E n \in DOMAIN names : ~Has(schema, names[n])
    THEN [err |-> "FieldNotFound", fields |-> projectedFields]
    ELSE LET named(i) == \E n \in DOMAIN names : names[n] = schema[i]
             idx == SelectSeq([i \in DOMAIN schema |-> i], named)
         IN  [err |-> NoErr, fields |-> [n \in DOMAIN idx |-> tuple[idx[n]]]]

\* lines 23-26: the named fields of one tuple, stopping at the first unknown name
RECURSIVE ProjectFields(_, _, _, _, _)
ProjectFields(schema, tuple, names, k, projectedFields) ==
    IF k > Len(names) THEN [err |-> NoErr, fields |-> projectedFields]
    ELSE IF ~Has(schema, names[k])
         THEN [err |-> "FieldNotFound", fields |-> projectedFields]
    ELSE ProjectFields(schema, tuple, names, k + 1,
                       Append(projectedFields, tuple[index_of(schema, names[k])]))

\* lines 18-29: one pass over the input, one insertTuple per tuple
RECURSIVE ProjectionLoop(_, _, _, _, _)
ProjectionLoop(schema, store, names, i, o) ==
    IF i > Len(store) THEN [err |-> NoErr, out |-> o]
    ELSE LET r == ProjectFields(schema, store[i], names, 1, <<>>)
         IN  IF r.err # NoErr THEN [err |-> r.err, out |-> o]
             ELSE ProjectionLoop(schema, store, names, i + 1, Append(o, r.fields))

projection(schema, store, o, names) == ProjectionLoop(schema, store, names, 1, o)

\* ------------------------------------------------------------------ filter
\* lines 46-54: the comparison the clause's operator selects
Compare(op, field_value, value) ==
    CASE op = "EQ" -> FieldEq(field_value, value)
      [] op = "NE" -> ~FieldEq(field_value, value)
      [] op = "LT" -> FieldLt(field_value, value)
      [] op = "LE" -> FieldLe(field_value, value)
      [] op = "GT" -> FieldLt(value, field_value)
      [] op = "GE" -> FieldLe(value, field_value)

\* a clause loop without the break on the first clause that does not match:
\* the last clause alone decides
MatchClausesNoBreak(schema, tuple, p, k) ==
    IF \E n \in DOMAIN p : ~Has(schema, p[n].field_name)
    THEN [err |-> "FieldNotFound", matches |-> FALSE]
    ELSE IF \E n \in DOMAIN p : p[n].op \notin Ops
    THEN [err |-> "UnsupportedComparison", matches |-> FALSE]
    ELSE [err |-> NoErr,
          matches |-> p = <<>> \/
              Compare(p[Len(p)].op,
                      tuple[index_of(schema, p[Len(p)].field_name)], p[Len(p)].value)]

\* lines 41-57: the clauses of one tuple, left to right, stopping at the first
\* that does not match
RECURSIVE MatchClauses(_, _, _, _)
MatchClauses(schema, tuple, p, k) ==
    IF k > Len(p) THEN [err |-> NoErr, matches |-> TRUE]
    ELSE IF ~Has(schema, p[k].field_name)
         THEN [err |-> "FieldNotFound", matches |-> FALSE]
    ELSE IF p[k].op \notin Ops
         THEN [err |-> "UnsupportedComparison", matches |-> FALSE]
    ELSE IF ~Compare(p[k].op, tuple[index_of(schema, p[k].field_name)], p[k].value)
         THEN [err |-> NoErr, matches |-> FALSE]
    ELSE MatchClauses(schema, tuple, p, k + 1)

\* a filter that inserts the tuple as soon as its first clause matches, before
\* the clauses after it are looked at
RECURSIVE FilterLoopEarlyInsert(_, _, _, _, _)
FilterLoopEarlyInsert(schema, store, p, i, o) ==
    IF i > Len(store) THEN [err |-> NoErr, out |-> o]
    ELSE LET r == MatchClauses(schema, store[i], p, 1)
             first == MatchClauses(schema, store[i], SubSeq(p, 1, 1), 1)
             o1 == IF p # <<>> /\ first.err = NoErr /\ first.matches
                   THEN Append(o, store[i]) ELSE o
         IN  IF r.err # NoErr THEN [err |-> r.err, out |-> o1]
             ELSE FilterLoopEarlyInsert(schema, store, p, i + 1,
                                        IF p = <<>> THEN Append(o, store[i]) ELSE o1)

\* lines 36-62
RECURSIVE FilterLoop(_, _, _, _, _)
FilterLoop(schema, store, p, i, o) ==
    IF i > Len(store) THEN [err |-> NoErr, out |-> o]
    ELSE LET r == MatchClauses(schema, store[i], p, 1)
         IN  IF r.err # NoErr THEN [err |-> r.err, out |-> o]
             ELSE FilterLoop(schema, store, p, i + 1,
                             IF r.matches THEN Append(o, store[i]) ELSE o)

filter(schema, store, o, p) == FilterLoop(schema, store, p, 1, o)

\* --------------------------------------------------------------- aggregate
AggOps == {"SUM", "AVG", "MIN", "MAX", "COUNT"}

IntMax == 2147483647
IntMin == -IntMax - 1

\* lines 85-91: the std::visit that turns the aggregated field into a double;
\* a string is not arithmetic and throws
IsArithmetic(f) == f[1] \in {IntIndex, DoubleIndex}
ToDouble(f) == IF f[1] = IntIndex THEN <<f[2][1], 1>> ELSE f[2]

\* static_cast<int>(double): truncation toward zero; the result for a value an
\* int cannot hold is undefined, and is then ub, any int the caller passes
StaticCastInt(d, ub) ==
    LET t == IF d[1] >= 0 THEN d[1] \div d[2] ELSE -((-d[1]) \div d[2])
    IN  IF d[2] # 0 /\ IntMin <= t /\ t <= IntMax THEN t ELSE ub

\* an unordered_map: a function on the keys it holds
EmptyMap == [k \in {} |-> 0]
MapHas(m, k) == k \in DOMAIN m
MapPut(m, k, v) == [x \in DOMAIN m \cup {k} |-> IF x = k THEN v ELSE m[x]]
\* operator[]: a missing key is inserted with the value-initialised default
MapAt(m, k, default) == IF MapHas(m, k) THEN m[k] ELSE default

DblZero == <<0, 1>>

\* lines 68-78: the state before the scan
AggInit ==
    [err |-> NoErr, groupResults |-> EmptyMap, groupCounts |-> EmptyMap,
     globalResult |-> DblZero, globalCount |-> 0,
     minResult |-> DblMax, maxResult |-> DblLowest, hasValues |-> FALSE]

\* lines 97-139: one tuple's value folded into the running state
Accumulate(st, op, hasGroup, groupKey, value) ==
    CASE op \in {"SUM", "AVG"} ->
           IF hasGroup
           THEN [st EXCEPT
                   !.groupResults =
                       MapPut(@, groupKey, DblAdd(MapAt(@, groupKey, DblZero), value)),
                   !.groupCounts = MapPut(@, groupKey, MapAt(@, groupKey, 0) + 1)]
           ELSE [st EXCEPT !.globalResult = DblAdd(@, value),
                           !.globalCount = @ + 1]
      [] op = "MIN" ->
           IF hasGroup
           THEN IF ~MapHas(st.groupResults, groupKey)
                   \/ DblLess(value, st.groupResults[groupKey])
                THEN [st EXCEPT !.groupResults = MapPut(@, groupKey, value)]
                ELSE st
           ELSE [st EXCEPT !.minResult = DblMin(@, value)]
      [] op = "MAX" ->
           IF hasGroup
           THEN IF ~MapHas(st.groupResults, groupKey)
                   \/ DblLess(st.groupResults[groupKey], value)
                THEN [st EXCEPT !.groupResults = MapPut(@, groupKey, value)]
                ELSE st
           ELSE [st EXCEPT !.maxResult = DblMax2(@, value)]
      [] op = "COUNT" ->
           IF hasGroup
           THEN [st EXCEPT !.groupCounts = MapPut(@, groupKey, MapAt(@, groupKey, 0) + 1)]
           ELSE [st EXCEPT !.globalCount = @ + 1]
      [] OTHER -> [st EXCEPT !.err = "UnsupportedOperator"]

\* lines 81-140: the scan; the first non-numeric field or unsupported operator
\* ends it
RECURSIVE AccumulateLoop(_, _, _, _, _, _, _)
AccumulateLoop(store, op, fieldIndex, hasGroup, groupIndex, i, st) ==
    IF i > Len(store) \/ st.err # NoErr THEN st
    ELSE IF ~IsArithmetic(store[i][fieldIndex])
         THEN [st EXCEPT !.err = "NonNumericField"]
    ELSE AccumulateLoop(store, op, fieldIndex, hasGroup, groupIndex, i + 1,
            Accumulate([st EXCEPT !.hasValues = TRUE], op, hasGroup,
                       IF hasGroup THEN store[i][groupIndex] ELSE IntF(0),
                       ToDouble(store[i][fieldIndex])))

\* a group row whose AVG is not divided by the count
GroupRowSumForAvg(st, op, groupKey) ==
    LET result == st.groupResults[groupKey]
        outputValue ==
            IF op = "COUNT" THEN <<MapAt(st.groupCounts, groupKey, 0), 1>>
            ELSE result
    IN  <<groupKey, <<DoubleIndex, outputValue>>>>

\* lines 145-151: the row of one group
GroupRow(st, op, groupKey) ==
    LET result == st.groupResults[groupKey]
        outputValue ==
            IF op = "AVG" THEN DblDivInt(result, MapAt(st.groupCounts, groupKey, 0))
            ELSE IF op = "COUNT" THEN <<MapAt(st.groupCounts, groupKey, 0), 1>>
            ELSE result
    IN  <<groupKey, <<DoubleIndex, outputValue>>>>

\* lines 143-152: one row per key of groupResults, in the map's iteration
\* order, which is order
GroupedFinal(st, op, o, order) ==
    [err |-> NoErr,
     out |-> o \o [n \in 1..Len(order) |-> GroupRow(st, op, order[n])]]

\* a non-grouped finalization that casts the running minimum and maximum even
\* when no tuple was seen
GlobalFinalNoGuard(st, op, o, ub) ==
    CASE op = "SUM" ->
           [err |-> NoErr,
            out |-> Append(o, <<IntF(StaticCastInt(st.globalResult, ub))>>)]
      [] op = "AVG" ->
           [err |-> NoErr,
            out |-> Append(o, <<IF st.globalCount > 0
                                THEN <<DoubleIndex,
                                       DblDivInt(st.globalResult, st.globalCount)>>
                                ELSE <<DoubleIndex, DblZero>>>>)]
      [] op = "MIN" ->
           [err |-> NoErr,
            out |-> Append(o, <<IntF(StaticCastInt(st.minResult, ub))>>)]
      [] op = "MAX" ->
           [err |-> NoErr,
            out |-> Append(o, <<IntF(StaticCastInt(st.maxResult, ub))>>)]
      [] op = "COUNT" ->
           [err |-> NoErr, out |-> Append(o, <<IntF(st.globalCount)>>)]
      [] OTHER -> [err |-> "UnsupportedOperator", out |-> o]

\* lines 153-175: the single row of the non-grouped path
GlobalFinal(st, op, o, ub) ==
    CASE op = "SUM" ->
           [err |-> NoErr,
            out |-> Append(o, <<IntF(StaticCastInt(st.globalResult, ub))>>)]
      [] op = "AVG" ->
           [err |-> NoErr,
            out |-> Append(o, <<IF st.globalCount > 0
                                THEN <<DoubleIndex,
                                       DblDivInt(st.globalResult, st.globalCount)>>
                                ELSE <<DoubleIndex, DblZero>>>>)]
      [] op = "MIN" ->
           [err |-> NoErr,
            out |-> Append(o, <<IntF(IF st.hasValues
                                     THEN StaticCastInt(st.minResult, ub) ELSE 0)>>)]
      [] op = "MAX" ->
           [err |-> NoErr,
            out |-> Append(o, <<IntF(IF st.hasValues
                                     THEN StaticCastInt(st.maxResult, ub) ELSE 0)>>)]
      [] op = "COUNT" ->
           [err |-> NoErr, out |-> Append(o, <<IntF(st.globalCount)>>)]
      [] OTHER -> [err |-> "UnsupportedOperator", out |-> o]

\* lines 66-72: the two names are resolved before the scan
AggNamesOk(schema, a) ==
    Has(schema, a.field) /\ (a.group # <<>> => Has(schema, a.group[1]))

\* lines 66-140: the state the scan leaves
AggScan(schema, store, a) ==
    AccumulateLoop(store, a.op, index_of(schema, a.field), a.group # <<>>,
                   IF a.group # <<>> THEN index_of(schema, a.group[1]) ELSE 1,
                   1, AggInit)

\* the orders in which the keys of a map can be iterated
Perms(S) ==
    {p \in [1..Cardinality(S) -> S] : \A x \in S : \E n \in DOMAIN p : p[n] = x}

\* lines 65-176; order is the iteration order of groupResults
aggregate(schema, store, o, a, order, ub) ==
    IF ~AggNamesOk(schema, a) THEN [err |-> "FieldNotFound", out |-> o]
    ELSE LET st == AggScan(schema, store, a)
         IN  IF st.err # NoErr THEN [err |-> st.err, out |-> o]
             ELSE IF a.group # <<>> THEN GroupedFinal(st, a.op, o, order)
             ELSE GlobalFinal(st, a.op, o, ub)

\* -------------------------------------------------------------------- join
\* lines 190-194: the unordered_multimap built from the left store; its entries
\* are listed in the order the table iterates them, order being a permutation
\* of the left positions (equal keys may come out in any order)
BuildHashTable(left, leftFieldIndex, order) ==
    [n \in 1..Len(left) |->
        [key |-> left[order[n]][leftFieldIndex], tuple |-> left[order[n]]]]

\* a combined tuple that keeps the right join field
CombineEqKeepsKey(tupleLeft, tupleRight, rightFieldIndex) == tupleLeft \o tupleRight

\* lines 207-220: left fields, then right fields without the join field
CombineEq(tupleLeft, tupleRight, rightFieldIndex) ==
    tupleLeft \o SubSeq(tupleRight, 1, rightFieldIndex - 1)
              \o SubSeq(tupleRight, rightFieldIndex + 1, Len(tupleRight))

\* lines 238-247: left fields, then all right fields
CombineNe(tupleLeft, tupleRight) == tupleLeft \o tupleRight

\* lines 202-224: equal_range of the right key, one row per entry in it
RECURSIVE ProbeRange(_, _, _, _, _)
ProbeRange(hashTable, tupleRight, rightFieldIndex, n, o) ==
    IF n > Len(hashTable) THEN o
    ELSE ProbeRange(hashTable, tupleRight, rightFieldIndex, n + 1,
            IF FieldEq(hashTable[n].key, tupleRight[rightFieldIndex])
            THEN Append(o, CombineEq(hashTable[n].tuple, tupleRight, rightFieldIndex))
            ELSE o)

\* lines 197-225: the scan of the right store
RECURSIVE ProbeLoop(_, _, _, _, _)
ProbeLoop(hashTable, rightStore, rightFieldIndex, i, o) ==
    IF i > Len(rightStore) THEN o
    ELSE ProbeLoop(hashTable, rightStore, rightFieldIndex, i + 1,
                   ProbeRange(hashTable, rightStore[i], rightFieldIndex, 1, o))

\* an inner loop that joins on "less than" in place of "not equal"
RECURSIVE NeInnerLess(_, _, _, _, _, _)
NeInnerLess(tupleLeft, leftFieldIndex, rightStore, rightFieldIndex, j, o) ==
    IF j > Len(rightStore) THEN o
    ELSE NeInnerLess(tupleLeft, leftFieldIndex, rightStore, rightFieldIndex, j + 1,
            IF FieldLt(tupleLeft[leftFieldIndex], rightStore[j][rightFieldIndex])
            THEN Append(o, CombineNe(tupleLeft, rightStore[j]))
            ELSE o)

\* lines 232-251: the inner loop of the inequality join
RECURSIVE NeInner(_, _, _, _, _, _)
NeInner(tupleLeft, leftFieldIndex, rightStore, rightFieldIndex, j, o) ==
    IF j > Len(rightStore) THEN o
    ELSE NeInner(tupleLeft, leftFieldIndex, rightStore, rightFieldIndex, j + 1,
            IF ~FieldEq(tupleLeft[leftFieldIndex], rightStore[j][rightFieldIndex])
            THEN Append(o, CombineNe(tupleLeft, rightStore[j]))
            ELSE o)

\* lines 228-252: the outer loop of the inequality join
RECURSIVE NeOuter(_, _, _, _, _, _)
NeOuter(left, leftFieldIndex, rightStore, rightFieldIndex, i, o) ==
    IF i > Len(left) THEN o
    ELSE NeOuter(left, leftFieldIndex, rightStore, rightFieldIndex, i + 1,
                 NeInner(left[i], leftFieldIndex, rightStore, rightFieldIndex, 1, o))

\* lines 178-256; order is the iteration order of the hash table
join(leftSchema, rightSchema, left, rightStore, o, p, order) ==
    IF ~Has(leftSchema, p.left) \/ ~Has(rightSchema, p.right)
    THEN [err |-> "FieldNotFound", out |-> o]
    ELSE LET leftFieldIndex == index_of(leftSchema, p.left)
             rightFieldIndex == index_of(rightSchema, p.right)
         IN  IF p.op = "EQ"
             THEN [err |-> NoErr,
                   out |-> ProbeLoop(BuildHashTable(left, leftFieldIndex, order),
                                     rightStore, rightFieldIndex, 1, o)]
             ELSE IF p.op = "NE"
             THEN [err |-> NoErr,
                   out |-> NeOuter(left, leftFieldIndex, rightStore,
                                   rightFieldIndex, 1, o)]
             ELSE [err |-> "UnsupportedJoinPredicate", out |-> o]

\* ------------------------------------------------------- the inputs drawn
StrA == <<97>>
StrB == <<98>>

\* tuples of the input (left) store: (id int, name string, score double)
Rows ==
    { <<IntF(1), StrF(StrA), DblF(1, 2)>>,
      <<IntF(2), StrF(StrA), DblF(3, 2)>>,
      <<IntF(2), StrF(StrB), DblF(5, 2)>> }

\* tuples of the right store: (rid int, tag string)
RightRows ==
    { <<IntF(1), StrF(StrA)>>, <<IntF(2), StrF(StrA)>>, <<IntF(2), StrF(StrB)>> }

SeqsUpTo(S, n) == UNION {[1..m -> S] : m \in 0..n}

Stores == SeqsUpTo(Rows, MaxRows)
RightStores == SeqsUpTo(RightRows, MaxRight)

\* what the output store holds before a call: nothing, or an earlier row
OutStores == {<<>>, <<<<IntF(7)>>>>}

Absent == "zz"

NameLists == SeqsUpTo(Names(InSchema) \cup {Absent}, MaxNames)

Clause(f, op, v) == [field_name |-> f, op |-> op, value |-> v]

Clauses ==
    {Clause("id", op, v) : op \in Ops, v \in {IntF(1), StrF(StrA)}}
    \cup {Clause("name", op, StrF(StrA)) : op \in {"EQ", "LT"}}
    \cup {Clause(Absent, "EQ", IntF(1)), Clause("id", OtherOp, IntF(1))}

Preds == SeqsUpTo(Clauses, MaxClauses)

Aggs ==
    [field : {"id", "score", "name", Absent},
     op : AggOps \cup {OtherOp},
     group : {<<>>, <<"id">>, <<"name">>, <<Absent>>}]

JoinPreds ==
    [left : {"id", "name", Absent}, op : {"EQ", "NE", "LT"},
     right : {"rid", "tag", Absent}]

\* the ints an out-of-range static_cast<int> may give
UbInts == {IntMin, 0, IntMax}

NoAgg == [field |-> "", op |-> "", group |-> <<>>]
NoJoin == [left |-> "", op |-> "", right |-> ""]

\* ----------------------------------------------------------- state machine
Init ==
    /\ call = "none"
    /\ in = <<>>
    /\ right = <<>>
    /\ out = <<>>
    /\ out0 = <<>>
    /\ err = NoErr
    /\ field_names = <<>>
    /\ pred = <<>>
    /\ agg = NoAgg
    /\ jpred = NoJoin

Projection ==
    /\ call = "none"
    /\ \E s \in Stores, names \in NameLists :
          LET r == projection(InSchema, s, out, names)
          IN  /\ call' = "projection"
              /\ in' = s
              /\ field_names' = names
              /\ out' = r.out
              /\ err' = r.err
    /\ UNCHANGED <<right, out0, pred, agg, jpred>>

Filter ==
    /\ call = "none"
    /\ \E s \in Stores, p \in Preds :
          LET r == filter(InSchema, s, out, p)
          IN  /\ call' = "filter"
              /\ in' = s
              /\ pred' = p
              /\ out' = r.out
              /\ err' = r.err
    /\ UNCHANGED <<right, out0, field_names, agg, jpred>>

\* the keys groupResults holds when the scan ends without an error
GroupKeys(schema, s, a) ==
    IF AggNamesOk(schema, a) /\ AggScan(schema, s, a).err = NoErr
    THEN DOMAIN AggScan(schema, s, a).groupResults
    ELSE {}

Aggregate ==
    /\ call = "none"
    /\ \E s \in Stores, a \in Aggs :
       \E order \in Perms(GroupKeys(InSchema, s, a)),
          ub \in IF a.group = <<>> THEN UbInts ELSE {0} :
          LET r == aggregate(InSchema, s, out, a, order, ub)
          IN  /\ call' = "aggregate"
              /\ in' = s
              /\ agg' = a
              /\ out' = r.out
              /\ err' = r.err
    /\ UNCHANGED <<right, out0, field_names, pred, jpred>>

Join ==
    /\ call = "none"
    /\ \E s \in Stores, t \in RightStores, p \in JoinPreds :
       \E order \in IF p.op = "EQ" THEN Perms(1..Len(s))
                    ELSE {[n \in 1..Len(s) |-> n]} :
          LET r == join(InSchema, RightSchema, s, t, out, p, order)
          IN  /\ call' = "join"
              /\ in' = s
              /\ right' = t
              /\ jpred' = p
              /\ out' = r.out
              /\ err' = r.err
    /\ UNCHANGED <<out0, field_names, pred, agg>>

\* the caller moves on to another output store
Return ==
    /\ call # "none"
    /\ \E o \in OutStores :
          /\ out' = o
          /\ out0' = o
    /\ call' = "none"
    /\ in' = <<>>
    /\ right' = <<>>
    /\ err' = NoErr
    /\ field_names' = <<>>
    /\ pred' = <<>>
    /\ agg' = NoAgg
    /\ jpred' = NoJoin

Next == Projection \/ Filter \/ Aggregate \/ Join \/ Return

Spec == Init /\ [][Next]_vars

\* ------------------------------------------------------------------ claims
\* the rows the call appended to the output store
Appended == SubSeq(out, Len(out0) + 1, Len(out))

\* the output store still starts with what it held before the call
KeepsEarlierRows == Len(out) >= Len(out0) /\ SubSeq(out, 1, Len(out0)) = out0

Called(name) == call = name

Pos(schema, name) == CHOOSE i \in DOMAIN schema : schema[i] = name

\* C1: projection with field names that all exist appends exactly one tuple
\* per input tuple, in input order, the i-th made of the named fields of the
\* i-th input tuple in the requested order (an empty input appends nothing).
C1_ProjectionRows ==
    (Called("projection") /\ \A k \in DOMAIN field_names : Has(InSchema, field_names[k]))
    => /\ err = NoErr
       /\ KeepsEarlierRows
       /\ Len(Appended) = Len(in)
       /\ \A i \in 1..Len(in) :
            /\ Len(Appended[i]) = Len(field_names)
            /\ \A k \in DOMAIN field_names :
                 Appended[i][k] = in[i][Pos(InSchema, field_names[k])]

C1_Witness ==
    /\ Called("projection")
    /\ Len(in) = 3
    /\ field_names = <<"name", "id">>
    /\ out0 # <<>>
    /\ Len(Appended) = 3
    /\ Appended[3] = <<in[3][2], in[3][1]>>

\* the meaning of a clause on a tuple: the field compared with the literal
Satisfies(t, c) ==
    LET a == t[Pos(InSchema, c.field_name)]
        b == c.value
    IN  CASE c.op = "EQ" -> a = b
          [] c.op = "NE" -> a # b
          [] c.op = "LT" -> FieldLt(a, b)
          [] c.op = "LE" -> FieldLt(a, b) \/ a = b
          [] c.op = "GT" -> FieldLt(b, a)
          [] c.op = "GE" -> FieldLt(b, a) \/ a = b

SatisfiesAll(t) == \A k \in DOMAIN pred : Satisfies(t, pred[k])

WellFormedPred ==
    \A k \in DOMAIN pred : Has(InSchema, pred[k].field_name) /\ pred[k].op \in Ops

\* C2: filter with clauses over existing fields and the six operators appends
\* exactly the input tuples that satisfy every clause, unchanged, in their
\* original order, duplicates kept; an empty predicate keeps every tuple.
C2_FilterSubsequence ==
    (Called("filter") /\ WellFormedPred)
    => /\ err = NoErr
       /\ KeepsEarlierRows
       /\ Appended = SelectSeq(in, SatisfiesAll)
       /\ (pred = <<>> => Appended = in)

C2_Witness ==
    /\ Called("filter")
    /\ Len(pred) = 2
    /\ WellFormedPred
    /\ Len(in) = 3
    /\ in[1] = in[3]
    /\ Len(Appended) = 2
    /\ ~SatisfiesAll(in[2])
    /\ Satisfies(in[2], pred[1])

\* -- grouped aggregate
Grouped == agg.group # <<>>

NumericField == agg.field \in {"id", "score"}

GroupValues == {in[i][Pos(InSchema, agg.group[1])] : i \in 1..Len(in)}

\* the positions of the input tuples of group g
Members(g) == {i \in 1..Len(in) : in[i][Pos(InSchema, agg.group[1])] = g}

AllRows == 1..Len(in)

\* twice the aggregated field of input tuple i, an integer for every value of
\* Rows (the scores are halves)
Twice(i) ==
    LET f == in[i][Pos(InSchema, agg.field)]
    IN  IF f[1] = IntIndex THEN 2 * f[2][1] ELSE f[2][1] * (2 \div f[2][2])

RECURSIVE SumTwice(_)
SumTwice(S) ==
    IF S = {} THEN 0
    ELSE LET i == CHOOSE x \in S : TRUE IN Twice(i) + SumTwice(S \ {i})

\* the double d = p/q equals n/m
DblIs(d, n, m) == d[2] > 0 /\ d[1] * m = n * d[2]

\* the double d is what operator op gives over the input tuples at positions S
IsResultOver(d, op, S) ==
    CASE op = "SUM"   -> DblIs(d, SumTwice(S), 2)
      [] op = "AVG"   -> DblIs(d, SumTwice(S), 2 * Cardinality(S))
      [] op = "MIN"   -> /\ \E i \in S : DblIs(d, Twice(i), 2)
                         /\ \A i \in S : d[1] * 2 <= Twice(i) * d[2]
      [] op = "MAX"   -> /\ \E i \in S : DblIs(d, Twice(i), 2)
                         /\ \A i \in S : d[1] * 2 >= Twice(i) * d[2]
      [] op = "COUNT" -> DblIs(d, Cardinality(S), 1)
      [] OTHER -> FALSE

\* C3: grouped aggregate over a numeric field, for each of SUM, AVG, MIN, MAX
\* and COUNT, appends exactly one row per distinct group-by value of the input
\* and no other row; an empty input gives no row.
C3_OneRowPerGroup ==
    (Called("aggregate") /\ Grouped /\ agg.op \in AggOps /\ NumericField
       /\ Has(InSchema, agg.group[1]))
    => /\ err = NoErr
       /\ KeepsEarlierRows
       /\ Len(Appended) = Cardinality(GroupValues)
       /\ {Appended[n][1] : n \in 1..Len(Appended)} = GroupValues

\* the same with COUNT left out: what the code does for the four other operators
C3_OneRowPerGroupButCount ==
    (Called("aggregate") /\ agg.op # "COUNT") => C3_OneRowPerGroup

\* what the code does for COUNT: no row at all
C3_GroupedCountEmitsNothing ==
    (Called("aggregate") /\ Grouped /\ agg.op = "COUNT") => Appended = <<>>

\* C4: every row grouped aggregate appends is a pair (g, v) with g a group-by
\* value of the input and v the operator's result over exactly the input
\* tuples of group g: the untruncated sum, the sum over the number of tuples,
\* the smallest, the largest, the number of tuples.
C4_GroupedRowValues ==
    (Called("aggregate") /\ Grouped /\ err = NoErr)
    => /\ KeepsEarlierRows
       /\ \A n \in 1..Len(Appended) :
            /\ Len(Appended[n]) = 2
            /\ Appended[n][1] \in GroupValues
            /\ Appended[n][2][1] = DoubleIndex
            /\ IsResultOver(Appended[n][2][2], agg.op, Members(Appended[n][1]))

C4_Witness ==
    /\ Called("aggregate")
    /\ agg = [field |-> "id", op |-> "AVG", group |-> <<"name">>]
    /\ Len(in) = 3
    /\ Cardinality(Members(StrF(StrA))) = 2
    /\ SumTwice(Members(StrF(StrA))) = 6
    /\ Len(Appended) = 2
    /\ Appended[1] = <<StrF(StrB), <<DoubleIndex, <<2, 1>>>>>>
    /\ Appended[2] = <<StrF(StrA), <<DoubleIndex, <<3, 2>>>>>>

\* -- aggregate without a group
\* C5: over N rows with an integer aggregated field and no group-by, aggregate
\* appends exactly one one-field tuple: COUNT N, SUM the sum as an integer,
\* AVG sum/N, MIN and MAX the smallest and largest value as integers; with
\* N = 0 the row is still appended and its value is 0 for all five operators.
C5_GlobalRow ==
    (Called("aggregate") /\ ~Grouped /\ agg.op \in AggOps /\ agg.field = "id")
    => /\ err = NoErr
       /\ KeepsEarlierRows
       /\ Len(Appended) = 1
       /\ Len(Appended[1]) = 1
       /\ LET v == Appended[1][1]
              N == Len(in)
          IN  IF N = 0 THEN v[2][1] = 0 /\ (v[1] = DoubleIndex => v[2][2] = 1)
              ELSE CASE agg.op = "COUNT" -> v = IntF(N)
                     [] agg.op = "SUM" -> v[1] = IntIndex /\ 2 * v[2][1] = SumTwice(AllRows)
                     [] agg.op = "AVG" ->
                          v[1] = DoubleIndex /\ IsResultOver(v[2], "AVG", AllRows)
                     [] agg.op \in {"MIN", "MAX"} ->
                          v[1] = IntIndex /\ IsResultOver(<<v[2][1], 1>>, agg.op, AllRows)

C5_Witness ==
    /\ Called("aggregate")
    /\ agg = [field |-> "id", op |-> "MIN", group |-> <<>>]
    /\ in = <<>>
    /\ out0 # <<>>
    /\ Appended = <<<<IntF(0)>>>>

C5_WitnessRows ==
    /\ Called("aggregate")
    /\ agg = [field |-> "id", op |-> "AVG", group |-> <<>>]
    /\ Len(in) = 3
    /\ SumTwice(AllRows) = 10
    /\ Appended = <<<<DblF(5, 3)>>>>

\* -- join
JoinNamesOk == Has(InSchema, jpred.left) /\ Has(RightSchema, jpred.right)

LeftKey(i) == in[i][Pos(InSchema, jpred.left)]
RightKey(j) == right[j][Pos(RightSchema, jpred.right)]

Pairs == (1..Len(in)) \X (1..Len(right))
EqualPairs == {pr \in Pairs : LeftKey(pr[1]) = RightKey(pr[2])}
DifferingPairs == Pairs \ EqualPairs

\* all fields of l, then the fields of r but the one at position skip
\* (skip = 0: all of them)
Combined(l, r, skip) ==
    [k \in 1..(Len(l) + Len(r) - (IF skip = 0 THEN 0 ELSE 1)) |->
        IF k <= Len(l) THEN l[k]
        ELSE IF skip = 0 \/ k - Len(l) < skip THEN r[k - Len(l)]
        ELSE r[k - Len(l) + 1]]

EqCombined(pr) == Combined(in[pr[1]], right[pr[2]], Pos(RightSchema, jpred.right))

\* C6: join with EQ appends exactly one combined tuple per pair (l, r) whose
\* join fields are equal and none for any other pair, nothing deduplicated
\* (N left and M right tuples sharing a key give N*M rows); a combined tuple is
\* the fields of l followed by the fields of r without r's join field, of
\* length |l| + |r| - 1.
C6_EqualityJoin ==
    (Called("join") /\ jpred.op = "EQ" /\ JoinNamesOk)
    => /\ err = NoErr
       /\ KeepsEarlierRows
       /\ Len(Appended) = Cardinality(EqualPairs)
       /\ \A pr \in EqualPairs :
            /\ Len(EqCombined(pr)) = Len(in[pr[1]]) + Len(right[pr[2]]) - 1
            /\ Cardinality({n \in 1..Len(Appended) : Appended[n] = EqCombined(pr)})
                 = Cardinality({qr \in EqualPairs : EqCombined(qr) = EqCombined(pr)})

C6_Witness ==
    /\ Called("join")
    /\ jpred = [left |-> "id", op |-> "EQ", right |-> "rid"]
    /\ Len(in) = 3
    /\ Len(right) = 2
    /\ Cardinality({i \in 1..3 : LeftKey(i) = IntF(2)}) = 2
    /\ RightKey(1) = IntF(2)
    /\ RightKey(2) = IntF(2)
    /\ right[1] # right[2]
    /\ Len(Appended) = 4
    /\ Len(Appended[1]) = 4

\* the pairs in left-major order
PairSeq ==
    [n \in 1..(Len(in) * Len(right)) |->
        <<((n - 1) \div Len(right)) + 1, ((n - 1) % Len(right)) + 1>>]

Differs(pr) == pr \in DifferingPairs

NeCombined(pr) == Combined(in[pr[1]], right[pr[2]], 0)

\* C7: join with NE appends exactly one combined tuple per pair (l, r) whose
\* join-field values differ and none for an equal pair, L*R - (equal pairs)
\* rows in all; a combined tuple is the fields of l followed by all fields of
\* r, and the pairs come in left-major order.
C7_InequalityJoin ==
    (Called("join") /\ jpred.op = "NE" /\ JoinNamesOk)
    => /\ err = NoErr
       /\ KeepsEarlierRows
       /\ Len(Appended) = Len(in) * Len(right) - Cardinality(EqualPairs)
       /\ LET sel == SelectSeq(PairSeq, Differs)
          IN  /\ Len(sel) = Len(Appended)
              /\ \A n \in 1..Len(sel) :
                   /\ Appended[n] = NeCombined(sel[n])
                   /\ Len(Appended[n]) = Len(in[sel[n][1]]) + Len(right[sel[n][2]])

C7_Witness ==
    /\ Called("join")
    /\ jpred = [left |-> "id", op |-> "NE", right |-> "rid"]
    /\ Len(in) = 2
    /\ Len(right) = 2
    /\ LeftKey(1) = IntF(1) /\ LeftKey(2) = IntF(2)
    /\ RightKey(1) = IntF(2) /\ RightKey(2) = IntF(1)
    /\ Len(Appended) = 2
    /\ Appended[1] = in[1] \o right[1]
    /\ Appended[2] = in[2] \o right[2]

\* -- errors
\* C8: projection with a field-name list holding a name absent from the input
\* schema fails with FieldNotFound, whatever the number of rows of the input
\* store, zero included.
C8_ProjectionFieldNotFound ==
    (Called("projection") /\ \E k \in DOMAIN field_names : ~Has(InSchema, field_names[k]))
    => err = "FieldNotFound"

\* what the code does: the names are looked up per input tuple, so the miss is
\* reported only when the input store has a tuple
C8_FieldNotFoundIffRows ==
    (Called("projection") /\ \E k \in DOMAIN field_names : ~Has(InSchema, field_names[k]))
    => (err = "FieldNotFound" <=> in # <<>>)

\* the clause's literal is of another variant than the field it names
Incompatible(c) ==
    /\ Has(InSchema, c.field_name)
    /\ \E t \in Rows : t[Pos(InSchema, c.field_name)][1] # c.value[1]

\* filter reaches clause k on some input tuple: the tuple satisfies every
\* clause before it
Evaluates(k) ==
    \E i \in 1..Len(in) : \A j \in 1..(k - 1) : Satisfies(in[i], pred[j])

\* C9: when filter evaluates a clause whose literal is of a variant
\* incompatible with the tuple's field, the call ends in UnsupportedComparison,
\* for each of the six operators; the clause never evaluates to true or false.
C9_IncompatibleIsError ==
    (Called("filter") /\ WellFormedPred
       /\ \E k \in DOMAIN pred : Incompatible(pred[k]) /\ Evaluates(k))
    => err = "UnsupportedComparison"

\* what the code does: such a call never ends in an error
C9_IncompatibleIsSilent ==
    (Called("filter") /\ WellFormedPred
       /\ \E k \in DOMAIN pred : Incompatible(pred[k]) /\ Evaluates(k))
    => err = NoErr

\* C10: a call of projection, filter, aggregate or join that ends in an error
\* has appended no tuple: the output store is as it was before the call.
C10_NoRowOnError ==
    (call # "none" /\ err # NoErr) => out = out0

C10_Witness ==
    /\ Called("filter")
    /\ err = "FieldNotFound"
    /\ Len(in) = 3
    /\ Len(pred) = 2
    /\ Has(InSchema, pred[1].field_name)
    /\ Satisfies(in[2], pred[1])
    /\ ~Satisfies(in[1], pred[1])
    /\ out0 # <<>>
    /\ out = out0

====
